---- MODULE Spec2Model ----
(***************************************************************************)
(* serde-env: decoding of flat, underscore-segmented key/value pairs into  *)
(* typed values.  The model follows src/src/de.rs (the Deserializer and    *)
(* its Seq/Map/Enum/Variant accessors).  The key tree (crate::value::Node) *)
(* is not part of the sources at hand and is modelled from the written     *)
(* description of KeyTree.                                                 *)
(*                                                                         *)
(* A string is a sequence of one-character strings: <<"a","_","b">> is the *)
(* Rust string "a_b".                                                      *)
(***************************************************************************)
EXTENDS Integers, Sequences, FiniteSets, TLC

VARIABLES
    prefix,   \* the prefix handed to from_iter_with_prefix, or None
    pairs,    \* the (key, value) pairs the builder has taken so far (dropped with the iterator)
    root,     \* the tree under construction, then the tree being decoded
    pc,       \* "build" while pairs are pushed, "decode" once T::deserialize runs
    de,       \* the node of the pending Deserializer(node), or None
    stack,    \* the live accessors, innermost last
    ret       \* what the last call handed to its visitor / returned

vars == <<prefix, pairs, root, pc, de, stack, ret>>

\* Option<T>: None is the empty sequence, Some(x) the one-element sequence
None == <<>>

Some(x) == <<x>>

\* ------------------------------------------------------------------ bounds

MaxPairs == 2
MaxLen == 3
MaxDepth == 3

\* ----------------------------------------------------------------- strings

UpperLetters == <<"A","B","C","D","E","F","G","H","I","J","K","L","M",
                  "N","O","P","Q","R","S","T","U","V","W","X","Y","Z">>
LowerLetters == <<"a","b","c","d","e","f","g","h","i","j","k","l","m",
                  "n","o","p","q","r","s","t","u","v","w","x","y","z">>
Digits == <<"0","1","2","3","4","5","6","7","8","9">>

\* the lowercase of each upper-case letter, the upper case of each lowercase one
LowerOf == [c \in {UpperLetters[i] : i \in DOMAIN UpperLetters} |->
               LowerLetters[CHOOSE i \in DOMAIN UpperLetters : UpperLetters[i] = c]]
UpperOf == [c \in {LowerLetters[i] : i \in DOMAIN LowerLetters} |->
               UpperLetters[CHOOSE i \in DOMAIN LowerLetters : LowerLetters[i] = c]]
ValueOf == [c \in {Digits[i] : i \in DOMAIN Digits} |->
               (CHOOSE i \in DOMAIN Digits : Digits[i] = c) - 1]

IsUpper(c) == c \in DOMAIN LowerOf

\* char::to_lowercase on an ASCII character
LowerChar(c) == IF c \in DOMAIN LowerOf THEN LowerOf[c] ELSE c

\* str::to_lowercase
Lower(s) == [i \in 1..Len(s) |-> LowerChar(s[i])]

UpperChar(c) == IF c \in DOMAIN UpperOf THEN UpperOf[c] ELSE c

\* str::to_uppercase
Upper(s) == [i \in 1..Len(s) |-> UpperChar(s[i])]

\* u8::is_ascii_digit
IsAsciiDigit(c) == c \in DOMAIN ValueOf

\* char::is_whitespace, on the characters of the model
IsWhitespace(c) == c \in {" ", "\t"}

Contains(s, c) == \E i \in 1..Len(s) : s[i] = c

\* str::starts_with
StartsWith(s, p) == Len(p) <= Len(s) /\ SubSeq(s, 1, Len(p)) = p

\* str::split(sep): the pieces between the separators, empty ones kept;
\* the empty string gives one empty piece
RECURSIVE Split(_, _)
Split(s, sep) ==
    IF ~Contains(s, sep)
    THEN <<s>>
    ELSE LET i == CHOOSE j \in 1..Len(s) :
                      s[j] = sep /\ \A k \in 1..(j - 1) : s[k] # sep
         IN  <<SubSeq(s, 1, i - 1)>> \o Split(SubSeq(s, i + 1, Len(s)), sep)

\* str::trim_start
RECURSIVE TrimStart(_)
TrimStart(s) ==
    IF s # <<>> /\ IsWhitespace(Head(s)) THEN TrimStart(Tail(s)) ELSE s

\* str::trim_end
RECURSIVE TrimEnd(_)
TrimEnd(s) ==
    IF s # <<>> /\ IsWhitespace(s[Len(s)])
    THEN TrimEnd(SubSeq(s, 1, Len(s) - 1))
    ELSE s

\* str::trim
Trim(s) == TrimEnd(TrimStart(s))

\* ---------------------------------------------------------- the key tree
\* A node is [value |-> string, children |-> segment name -> node].

NoChildren == [x \in {} |-> x]

\* Node::new(v)
NodeNew(v) == [value |-> v, children |-> NoChildren]

\* Node::value
Value(n) == n.value

\* Node::into_value
IntoValue(n) == n.value

\* Node::has_children
HasChildren(n) == DOMAIN n.children # {}

\* Node::is_empty
IsEmpty(n) == n.value = <<>> /\ DOMAIN n.children = {}

\* the segments of a key: lowercased, split on '_'
Segments(key) == Split(Lower(key), "_")

RECURSIVE Walk(_, _)
Walk(n, segs) ==
    IF segs = <<>> THEN Some(n)
    ELSE IF Head(segs) \in DOMAIN n.children
         THEN Walk(n.children[Head(segs)], Tail(segs))
         ELSE None

\* Node::get
Get(n, key) == Walk(n, Segments(key))

RECURSIVE Insert(_, _, _)
Insert(n, segs, v) ==
    IF segs = <<>>
    THEN [n EXCEPT !.value = v]
    ELSE LET s == Head(segs)
             c == IF s \in DOMAIN n.children THEN n.children[s] ELSE NodeNew(<<>>)
         IN  [n EXCEPT !.children = (s :> Insert(c, Tail(segs), v)) @@ n.children]

\* Node::push: one (key, value) pair into the tree
NodePushNoLower(n, key, v) == Insert(n, Split(key, "_"), v)

NodePush(n, key, v) == Insert(n, Segments(key), v)

\* the prefix filter of from_iter_with_prefix: the key with the prefix (and
\* the underscore after it) stripped, or None when the pair is discarded
StripPrefixLoose(key, p) ==
    LET k == Lower(key)
        q == Lower(p)
    IN  IF k = q THEN Some(<<>>)
        ELSE IF StartsWith(k, q \o <<"_">>) THEN Some(SubSeq(k, Len(q) + 2, Len(k)))
        ELSE IF StartsWith(k, q) THEN Some(SubSeq(k, Len(q) + 1, Len(k)))
        ELSE None

StripPrefix(key, p) ==
    LET k == Lower(key)
        q == Lower(p)
    IN  IF k = q THEN Some(<<>>)
        ELSE IF StartsWith(k, q \o <<"_">>) THEN Some(SubSeq(k, Len(q) + 2, Len(k)))
        ELSE None

\* one step of Node::from_iter / Node::from_iter_with_prefix
BuildStepFirstWins(n, pfx, key, v) ==
    LET k == IF pfx = None THEN Some(key) ELSE StripPrefix(key, pfx[1])
    IN  IF k = None THEN n
        ELSE IF Get(n, k[1]) # None /\ Get(n, k[1])[1].value # <<>> THEN n
        ELSE NodePush(n, k[1], v)

BuildStep(n, pfx, key, v) ==
    IF pfx = None
    THEN NodePush(n, key, v)
    ELSE LET k == StripPrefix(key, pfx[1])
         IN  IF k = None THEN n ELSE NodePush(n, k[1], v)

\* Node::from_iter / Node::from_iter_with_prefix over a whole sequence of pairs
RECURSIVE BuildAll(_, _, _)
BuildAll(n, pfx, ps) ==
    IF ps = <<>> THEN n
    ELSE BuildAll(BuildStep(n, pfx, Head(ps).key, Head(ps).value), pfx, Tail(ps))

FromPairs(pfx, ps) == BuildAll(NodeNew(<<>>), pfx, ps)

\* the chains of segment names from n down to each node without children
RECURSIVE LeafChains(_)
LeafChains(n) ==
    UNION { LET c == n.children[s]
            IN  IF DOMAIN c.children = {} THEN { <<s>> }
                ELSE { <<s>> \o q : q \in LeafChains(c) }
            : s \in DOMAIN n.children }

\* a chain of segment names, underscore-separated
RECURSIVE JoinSegments(_)
JoinSegments(chain) ==
    IF Len(chain) = 1 THEN chain[1]
    ELSE chain[1] \o <<"_">> \o JoinSegments(Tail(chain))

\* Node::flatten: for each leaf below n, pre joined with the chain of segment
\* names down to it
Flatten(n, pre) ==
    { IF pre = <<>> THEN JoinSegments(q) ELSE pre \o <<"_">> \o JoinSegments(q)
      : q \in LeafChains(n) }

\* ------------------------------------------------------- integer parsing
\* A parsed integer is kept as its decimal numeral: [neg, digits] with no
\* leading zeros, so that 64-bit ranges are compared digit by digit.

DigitVal(c) == ValueOf[c]

AllDigits(s) == \A i \in 1..Len(s) : IsAsciiDigit(s[i])

RECURSIVE StripZeros(_)
StripZeros(d) ==
    IF Len(d) > 1 /\ Head(d) = "0" THEN StripZeros(Tail(d)) ELSE d

\* a <= b for numerals without leading zeros
NumLeq(a, b) ==
    \/ Len(a) < Len(b)
    \/ /\ Len(a) = Len(b)
       /\ \/ a = b
          \/ \E i \in 1..Len(a) :
                /\ \A j \in 1..(i - 1) : a[j] = b[j]
                /\ DigitVal(a[i]) < DigitVal(b[i])

U64Max == <<"1","8","4","4","6","7","4","4","0","7","3","7","0","9","5","5","1","6","1","5">>
I64Max == <<"9","2","2","3","3","7","2","0","3","6","8","5","4","7","7","5","8","0","7">>
I64MinMagnitude == <<"9","2","2","3","3","7","2","0","3","6","8","5","4","7","7","5","8","0","8">>

Numeral(neg, d) ==
    LET m == StripZeros(d) IN [neg |-> neg /\ m # <<"0">>, digits |-> m]

\* str::parse::<u64>: an optional '+', then digits only, at most u64::MAX
ParseU64(s) ==
    LET body == IF s # <<>> /\ Head(s) = "+" /\ Len(s) > 1 THEN Tail(s) ELSE s
    IN  IF body = <<>> \/ ~AllDigits(body) THEN None
        ELSE IF ~NumLeq(StripZeros(body), U64Max) THEN None
        ELSE Some(Numeral(FALSE, body))

\* str::parse::<i64>: an optional sign, then digits only, within the i64 range
ParseI64(s) ==
    LET signed == s # <<>> /\ Head(s) \in {"+", "-"} /\ Len(s) > 1
        neg == signed /\ Head(s) = "-"
        body == IF signed THEN Tail(s) ELSE s
    IN  IF body = <<>> \/ ~AllDigits(body) THEN None
        ELSE IF ~NumLeq(StripZeros(body), IF neg THEN I64MinMagnitude ELSE I64Max)
             THEN None
        ELSE Some(Numeral(neg, body))

\* the integer types of the hints deserialize_i8 .. deserialize_u64
IntTypes == {"i8", "i16", "i32", "i64", "u8", "u16", "u32", "u64"}

IsSigned(t) == t \in {"i8", "i16", "i32", "i64"}

\* T::MAX, in decimal digits
IntMax(t) ==
    CASE t = "i8"  -> <<"1","2","7">>
      [] t = "i16" -> <<"3","2","7","6","7">>
      [] t = "i32" -> <<"2","1","4","7","4","8","3","6","4","7">>
      [] t = "i64" -> I64Max
      [] t = "u8"  -> <<"2","5","5">>
      [] t = "u16" -> <<"6","5","5","3","5">>
      [] t = "u32" -> <<"4","2","9","4","9","6","7","2","9","5">>
      [] t = "u64" -> U64Max

\* the magnitude of T::MIN, in decimal digits
IntMinMagnitude(t) ==
    CASE t = "i8"  -> <<"1","2","8">>
      [] t = "i16" -> <<"3","2","7","6","8">>
      [] t = "i32" -> <<"2","1","4","7","4","8","3","6","4","8">>
      [] t = "i64" -> I64MinMagnitude
      [] OTHER     -> <<"0">>

\* str::parse::<T> of an integer type: [ok, val] or [ok, err]. A lone sign or
\* the empty string is no number; '-' is a sign for the signed types only.
ParseIntNoRange(t, s) ==
    LET signs == IF IsSigned(t) THEN {"+", "-"} ELSE {"+"}
        signed == Len(s) > 1 /\ Head(s) \in signs
        neg == signed /\ Head(s) = "-"
        body == IF signed THEN Tail(s) ELSE s
    IN  IF s = <<>>
        THEN [ok |-> FALSE, err |-> "cannot parse integer from empty string"]
        ELSE IF ~AllDigits(body)
        THEN [ok |-> FALSE, err |-> "invalid digit found in string"]
        ELSE [ok |-> TRUE, val |-> Numeral(neg, body)]

ParseInt(t, s) ==
    LET signs == IF IsSigned(t) THEN {"+", "-"} ELSE {"+"}
        signed == Len(s) > 1 /\ Head(s) \in signs
        neg == signed /\ Head(s) = "-"
        body == IF signed THEN Tail(s) ELSE s
    IN  IF s = <<>>
        THEN [ok |-> FALSE, err |-> "cannot parse integer from empty string"]
        ELSE IF ~AllDigits(body)
        THEN [ok |-> FALSE, err |-> "invalid digit found in string"]
        ELSE IF neg /\ ~NumLeq(StripZeros(body), IntMinMagnitude(t))
        THEN [ok |-> FALSE, err |-> "number too small to fit in target type"]
        ELSE IF ~neg /\ ~NumLeq(StripZeros(body), IntMax(t))
        THEN [ok |-> FALSE, err |-> "number too large to fit in target type"]
        ELSE [ok |-> TRUE, val |-> Numeral(neg, body)]

S_true == <<"t","r","u","e">>
S_false == <<"f","a","l","s","e">>

\* str::parse::<bool>: exactly "true" or "false"
ParseBool(s) ==
    IF s = S_true THEN [ok |-> TRUE, val |-> TRUE]
    ELSE IF s = S_false THEN [ok |-> TRUE, val |-> FALSE]
    ELSE [ok |-> FALSE, err |-> "provided string was not true or false"]

\* str::parse::<char>: exactly one character
ParseChar(s) ==
    IF s = <<>> THEN [ok |-> FALSE, err |-> "cannot parse char from empty string"]
    ELSE IF Len(s) > 1 THEN [ok |-> FALSE, err |-> "too many characters in string"]
    ELSE [ok |-> TRUE, val |-> s[1]]

\* [u8]::eq_ignore_ascii_case
EqIgnoreAsciiCase(a, b) == Lower(a) = Lower(b)


\* ------------------------------------------------------------- accessors

\* SeqAccessor::new
SeqAccessorNew(elements) == [kind |-> "seq", elements |-> elements, taken |-> <<>>]

\* MapAccessor::new: keys is the iteration order of the HashSet of candidates
MapAccessorNew(keys, node) ==
    [kind |-> "map", last_value |-> None, keys |-> keys, node |-> node,
     candidates |-> keys, yielded |-> <<>>]

\* EnumAccessor::new
EnumAccessorNew(keys, node) == [kind |-> "enum", keys |-> keys, node |-> node]

\* VariantAccessor::new
VariantAccessorNew(node) == [kind |-> "variant", node |-> node]

Top == stack[Len(stack)]

Pop == SubSeq(stack, 1, Len(stack) - 1)

Range(f) == {f[i] : i \in DOMAIN f}

\* the orders in which a HashSet holding the names of list may be iterated
OrdersOfSet(S) == {o \in [1..Cardinality(S) -> S] : Range(o) = S}

Orders(list) == OrdersOfSet(Range(list))

\* the elements deserialize_tuple hands to its SeqAccessor
TupleElements(v) ==
    LET parts == Split(v, ",") IN [i \in 1..Len(parts) |-> Trim(parts[i])]

\* the elements deserialize_seq hands to its SeqAccessor
SeqElementsKeepEmpty(v) == TupleElements(v)

SeqElements(v) == SelectSeq(TupleElements(v), LAMBDA e : e # <<>>)

\* a call returning Err: the error propagates (?) through every live accessor
Fail(op, msg) ==
    /\ pc' = "error"
    /\ ret' = [op |-> op, err |-> msg]
    /\ de' = None
    /\ stack' = <<>>

\* ------------------------------------------------- the inputs of the model

\* keys and values of the pairs handed to from_iter / from_iter_with_prefix
BuildKeys ==
    { <<"A">>, <<"a">>, <<"A","_","B">>, <<"a","_","B","_","c">>,
      <<"P","_","a">>, <<"P">>, <<"P","a">> }

BuildValues == { <<>>, <<"Y">> }

Prefixes == { None, Some(<<"P">>), Some(<<"a">>) }

\* the field-name lists the framework passes to deserialize_struct
FieldLists ==
    { <<<<"a">>, <<"z">>>>,
      <<<<"b">>>>,
      <<<<"c">>>>,
      <<<<"a","_","b","_","c">>, <<"A","_","b">>>> }

\* the variant-name lists the framework passes to deserialize_enum
VariantLists ==
    { <<<<"X">>, <<"Y">>, <<"Z">>>>,
      <<<<"y">>, <<"X">>>> }

TupleLens == {1, 2}

\* the characters of the values decoded from a fresh single-value node
LeafAlphabet == {"0", "1", "-", ",", " ", "t", "X", "x"}

LongValues ==
    { S_true, S_false, <<"T","r","u","e">>, <<"F","A","L","S","E">>,
      <<"t","r","u","e"," ">>, <<"t","r","u","e","s">>,
      U64Max,
      <<"1","8","4","4","6","7","4","4","0","7","3","7","0","9","5","5","1","6","1","6">>,
      <<"0","0">> \o U64Max,
      <<"-">> \o I64MinMagnitude,
      <<"-","9","2","2","3","3","7","2","0","3","6","8","5","4","7","7","5","8","0","9">>,
      <<"-">> \o U64Max,
      <<"+","1">>, <<"1","-">>, <<"-","-","1">>,
      <<"1",","," ","2",","," ","3"," ">>,
      <<"1",",","2",",">>,
      <<" ",","," ","x"," ",",">> }

LeafValues == (UNION {[1..n -> LeafAlphabet] : n \in 0..MaxLen}) \cup LongValues

\* ---------------------------------------------------------------- build

\* Node::from_iter / from_iter_with_prefix taking the next pair of the iterator
Push(key, value) ==
    /\ pc = "build"
    /\ Len(pairs) < MaxPairs
    /\ root' = BuildStep(root, prefix, key, value)
    /\ pairs' = Append(pairs, [key |-> key, value |-> value])
    /\ UNCHANGED <<prefix, pc, de, stack, ret>>

\* from_iter: the tree is complete, T::deserialize(Deserializer(node)) starts
FromIter ==
    /\ pc = "build"
    /\ pc' = "decode"
    /\ de' = Some(root)
    /\ pairs' = <<>>
    /\ ret' = [op |-> "from_iter"]
    /\ UNCHANGED <<prefix, root, stack>>

\* --------------------------------------------------------- Deserializer

Pending == pc = "decode" /\ de # None

CanPush == Len(stack) < MaxDepth

\* what deserialize_any hands to the visitor for a node whose value is v
AnyVisitCommaLast(v) ==
    IF v = <<>> THEN [visit |-> "none"]
    ELSE IF IsAsciiDigit(v[1])
         THEN IF AllDigits(v) /\ ParseU64(v) # None
              THEN [visit |-> "u64", val |-> ParseU64(v)[1]]
              ELSE [visit |-> "str", val |-> v]
    ELSE IF v[1] = "-"
         THEN IF AllDigits(Tail(v)) /\ ParseI64(v) # None
              THEN [visit |-> "i64", val |-> ParseI64(v)[1]]
              ELSE [visit |-> "str", val |-> v]
    ELSE IF v[1] \in {"t", "f", "T", "F"}
         THEN IF EqIgnoreAsciiCase(v, S_true) THEN [visit |-> "bool", val |-> TRUE]
              ELSE IF EqIgnoreAsciiCase(v, S_false) THEN [visit |-> "bool", val |-> FALSE]
              ELSE [visit |-> "str", val |-> v]
    ELSE IF Contains(v, ",") THEN [visit |-> "seq", val |-> SeqElements(v)]
    ELSE [visit |-> "str", val |-> v]

AnyVisit(v) ==
    IF v = <<>> THEN [visit |-> "none"]
    ELSE IF Contains(v, ",") THEN [visit |-> "seq", val |-> SeqElements(v)]
    ELSE IF IsAsciiDigit(v[1]) /\ AllDigits(v)
         THEN IF ParseU64(v) # None
              THEN [visit |-> "u64", val |-> ParseU64(v)[1]]
              ELSE [visit |-> "str", val |-> v]
    ELSE IF v[1] = "-" /\ AllDigits(Tail(v))
         THEN IF ParseI64(v) # None
              THEN [visit |-> "i64", val |-> ParseI64(v)[1]]
              ELSE [visit |-> "str", val |-> v]
    ELSE IF v[1] \in {"t", "f", "T", "F"} /\ EqIgnoreAsciiCase(v, S_true)
         THEN [visit |-> "bool", val |-> TRUE]
    ELSE IF v[1] \in {"t", "f", "T", "F"} /\ EqIgnoreAsciiCase(v, S_false)
         THEN [visit |-> "bool", val |-> FALSE]
    ELSE [visit |-> "str", val |-> v]

DeserializeAny ==
    /\ Pending
    /\ LET n == de[1]
           r == AnyVisit(Value(n))
       IN  /\ ret' = [op |-> "deserialize_any", node |-> n, out |-> r]
           /\ de' = None
           /\ IF r.visit = "seq"
              THEN CanPush /\ stack' = Append(stack, SeqAccessorNew(r.val))
              ELSE stack' = stack
    /\ UNCHANGED <<prefix, pairs, root, pc>>

\* a typed hint: vis.visit_T(self.0.value().parse().map_err(Error::new)?)
Parsed(op, visit, r) ==
    /\ Pending
    /\ IF r.ok
       THEN /\ ret' = [op |-> op, node |-> de[1],
                       out |-> [visit |-> visit, val |-> r.val]]
            /\ de' = None
            /\ UNCHANGED <<pc, stack>>
       ELSE Fail(op, r.err)
    /\ UNCHANGED <<prefix, pairs, root>>

DeserializeBool ==
    Pending /\ Parsed("deserialize_bool", "bool", ParseBool(Value(de[1])))

\* deserialize_i8 .. deserialize_i64, deserialize_u8 .. deserialize_u64
DeserializeInt(t) ==
    Pending /\ Parsed("deserialize_" \o t, t, ParseInt(t, Value(de[1])))

DeserializeChar ==
    Pending /\ Parsed("deserialize_char", "char", ParseChar(Value(de[1])))

DeserializeStr ==
    /\ Pending
    /\ ret' = [op |-> "deserialize_str", node |-> de[1],
               out |-> [visit |-> "str", val |-> Value(de[1])]]
    /\ de' = None
    /\ UNCHANGED <<prefix, pairs, root, pc, stack>>

DeserializeString ==
    /\ Pending
    /\ ret' = [op |-> "deserialize_string", node |-> de[1],
               out |-> [visit |-> "string", val |-> IntoValue(de[1])]]
    /\ de' = None
    /\ UNCHANGED <<prefix, pairs, root, pc, stack>>

\* deserialize_option: TRUE when visit_none is called
OptionIsNoneByValue(n) == Value(n) = <<>>

OptionIsNone(n) == IsEmpty(n)

DeserializeOption ==
    /\ Pending
    /\ LET n == de[1]
       IN  IF OptionIsNone(n)
           THEN /\ ret' = [op |-> "deserialize_option", node |-> n,
                           out |-> [visit |-> "none"]]
                /\ de' = None
           ELSE /\ ret' = [op |-> "deserialize_option", node |-> n,
                           out |-> [visit |-> "some"]]
                /\ de' = Some(n)
    /\ UNCHANGED <<prefix, pairs, root, pc, stack>>

DeserializeNewtypeStruct ==
    /\ Pending
    /\ ret' = [op |-> "deserialize_newtype_struct", node |-> de[1],
               out |-> [visit |-> "newtype_struct"]]
    /\ de' = de
    /\ UNCHANGED <<prefix, pairs, root, pc, stack>>

DeserializeSeq ==
    /\ Pending
    /\ CanPush
    /\ LET elements == SeqElements(Value(de[1]))
       IN  /\ stack' = Append(stack, SeqAccessorNew(elements))
           /\ ret' = [op |-> "deserialize_seq", node |-> de[1],
                      out |-> [visit |-> "seq", val |-> elements]]
    /\ de' = None
    /\ UNCHANGED <<prefix, pairs, root, pc>>

DeserializeTuple(len) ==
    /\ Pending
    /\ CanPush
    /\ LET elements == TupleElements(Value(de[1]))
       IN  /\ stack' = Append(stack, SeqAccessorNew(elements))
           /\ ret' = [op |-> "deserialize_tuple", node |-> de[1],
                      out |-> [visit |-> "seq", val |-> elements]]
    /\ de' = None
    /\ UNCHANGED <<prefix, pairs, root, pc>>

\* deserialize_map: the candidate keys of the map accessor
MapKeysOfChildren(node) == DOMAIN node.children

MapKeys(node) == Flatten(node, <<>>)

DeserializeMap ==
    /\ Pending
    /\ CanPush
    /\ \E order \in OrdersOfSet(MapKeys(de[1])) :
          stack' = Append(stack, MapAccessorNew(order, de[1]))
    /\ ret' = [op |-> "deserialize_map", node |-> de[1],
               out |-> [visit |-> "map"]]
    /\ de' = None
    /\ UNCHANGED <<prefix, pairs, root, pc>>

\* the map accessor of a struct: MapAccessor::new over the field names in
\* the order the HashSet iterates them; fields remembers the list as given
StructAccessor(fields, order, node) ==
    MapAccessorNew(order, node) @@ [fields |-> fields]

DeserializeStruct(fields) ==
    /\ Pending
    /\ CanPush
    /\ \E order \in Orders(fields) :
          stack' = Append(stack, StructAccessor(fields, order, de[1]))
    /\ ret' = [op |-> "deserialize_struct", node |-> de[1],
               out |-> [visit |-> "map"]]
    /\ de' = None
    /\ UNCHANGED <<prefix, pairs, root, pc>>

DeserializeEnum(variants) ==
    /\ Pending
    /\ CanPush
    /\ stack' = Append(stack, EnumAccessorNew(variants, de[1]))
    /\ ret' = [op |-> "deserialize_enum", node |-> de[1],
               out |-> [visit |-> "enum"]]
    /\ de' = None
    /\ UNCHANGED <<prefix, pairs, root, pc>>

\* ------------------------------------------------------------ SeqAccessor

OnTop(kind) == pc = "decode" /\ de = None /\ stack # <<>> /\ Top.kind = kind

SetTop(f) == [stack EXCEPT ![Len(stack)] = f]

\* SeqAccessor::next_element_seed
NextElement ==
    /\ OnTop("seq")
    /\ IF Top.elements = <<>>
       THEN /\ ret' = [op |-> "next_element", val |-> None]
            /\ UNCHANGED <<de, stack>>
       ELSE LET v == Head(Top.elements)
            IN  /\ de' = Some(NodeNew(v))
                /\ stack' = SetTop([Top EXCEPT !.elements = Tail(@),
                                               !.taken = Append(@, v)])
                /\ ret' = [op |-> "next_element", val |-> Some(v)]
    /\ UNCHANGED <<prefix, pairs, root, pc>>

\* ------------------------------------------------------------ MapAccessor

\* the position in keys of the first key found inside node, 0 when none is
FirstFound(keys, node) ==
    IF \E i \in 1..Len(keys) : Get(node, keys[i]) # None
    THEN CHOOSE i \in 1..Len(keys) :
            /\ Get(node, keys[i]) # None
            /\ \A j \in 1..(i - 1) : Get(node, keys[j]) = None
    ELSE 0

\* MapAccessor::next_key_seed, the loop: the accessor afterwards and the key
MapNextKeyStopAtMissing(m) ==
    IF m.keys = <<>> \/ Get(m.node, Head(m.keys)) = None
    THEN [acc |-> [m EXCEPT !.keys = IF m.keys = <<>> THEN <<>> ELSE Tail(m.keys)],
          key |-> None]
    ELSE [acc |-> [m EXCEPT !.keys = Tail(m.keys),
                            !.last_value = Get(m.node, Head(m.keys)),
                            !.yielded = Append(@, Head(m.keys))],
          key |-> Some(Head(m.keys))]

\* (the iterator left on the key it has just yielded)
MapNextKeyNoAdvance(m) ==
    LET i == FirstFound(m.keys, m.node)
    IN  IF i = 0
        THEN [acc |-> [m EXCEPT !.keys = <<>>], key |-> None]
        ELSE [acc |-> [m EXCEPT !.keys = SubSeq(m.keys, i, Len(m.keys)),
                                !.last_value = Get(m.node, m.keys[i]),
                                !.yielded = Append(@, m.keys[i])],
              key |-> Some(m.keys[i])]

MapNextKey(m) ==
    LET i == FirstFound(m.keys, m.node)
    IN  IF i = 0
        THEN [acc |-> [m EXCEPT !.keys = <<>>], key |-> None]
        ELSE [acc |-> [m EXCEPT !.keys = SubSeq(m.keys, i + 1, Len(m.keys)),
                                !.last_value = Get(m.node, m.keys[i]),
                                !.yielded = Append(@, m.keys[i])],
              key |-> Some(m.keys[i])]

\* next_key_seed in a build with debug assertions, a value still buffered
NextKeyAssert ==
    /\ OnTop("map")
    /\ Top.last_value # None
    /\ pc' = "panic"
    /\ ret' = [op |-> "next_key", panic |-> "value for the last entry is not deserialized"]
    /\ UNCHANGED <<prefix, pairs, root, de, stack>>

\* next_key_seed past its debug_assert
NextKey ==
    /\ OnTop("map")
    /\ LET r == MapNextKey(Top)
       IN  /\ stack' = SetTop(r.acc)
           /\ ret' = [op |-> "next_key", val |-> r.key]
    /\ UNCHANGED <<prefix, pairs, root, pc, de>>

\* MapAccessor::next_value_seed: the node handed to the seed
MapNextValueRoot(m) == Some(m.node)

MapNextValue(m) == m.last_value

NextValue ==
    /\ OnTop("map")
    /\ IF Top.last_value = None
       THEN /\ pc' = "panic"
            /\ ret' = [op |-> "next_value", panic |-> "value for current entry is missing"]
            /\ UNCHANGED <<de, stack>>
       ELSE /\ de' = MapNextValue(Top)
            /\ stack' = SetTop([Top EXCEPT !.last_value = None])
            /\ ret' = [op |-> "next_value", node |-> MapNextValue(Top)[1]]
            /\ pc' = pc
    /\ UNCHANGED <<prefix, pairs, root>>

\* visit_seq / visit_map returns: the visitor is done with its accessor
VisitorReturn ==
    /\ pc = "decode" /\ de = None /\ stack # <<>>
    /\ Top.kind \in {"seq", "map"}
    /\ stack' = Pop
    /\ ret' = [op |-> "return", kind |-> Top.kind]
    /\ UNCHANGED <<prefix, pairs, root, pc, de>>

\* ----------------------------------------------- EnumAccessor, VariantAccessor

\* the first candidate equal to the node's value (Iterator::find)
FindVariantIgnoreCase(keys, value) ==
    IF \E i \in 1..Len(keys) : Lower(keys[i]) = Lower(value)
    THEN Some(keys[CHOOSE i \in 1..Len(keys) :
                     /\ Lower(keys[i]) = Lower(value)
                     /\ \A j \in 1..(i - 1) : Lower(keys[j]) # Lower(value)])
    ELSE None

FindVariant(keys, value) ==
    IF \E i \in 1..Len(keys) : keys[i] = value
    THEN Some(keys[CHOOSE i \in 1..Len(keys) :
                     keys[i] = value /\ \A j \in 1..(i - 1) : keys[j] # value])
    ELSE None

\* the message of the error: "no variant", the value between backquotes, "found"
NoVariantMessage(value) == <<"no variant ", value, " found">>

\* EnumAccessor::variant_seed
VariantSeed ==
    /\ OnTop("enum")
    /\ LET key == FindVariant(Top.keys, Value(Top.node))
       IN  IF key = None
           THEN Fail("variant_seed", NoVariantMessage(Value(Top.node)))
           ELSE /\ stack' = SetTop(VariantAccessorNew(Top.node))
                /\ ret' = [op |-> "variant_seed", val |-> key[1]]
                /\ UNCHANGED <<pc, de>>
    /\ UNCHANGED <<prefix, pairs, root>>

\* VariantAccessor::unit_variant: TRUE when it returns Ok(())
UnitVariantOkAlways(node) == TRUE

UnitVariantOk(node) == ~HasChildren(node)

UnitVariant ==
    /\ OnTop("variant")
    /\ IF UnitVariantOk(Top.node)
       THEN /\ stack' = Pop
            /\ ret' = [op |-> "unit_variant", node |-> Top.node]
            /\ UNCHANGED <<pc, de>>
       ELSE Fail("unit_variant", "variant is not unit")
    /\ UNCHANGED <<prefix, pairs, root>>

\* VariantAccessor::newtype_variant_seed: the node handed to the seed
NewtypeVariantNodeValueOnly(node) == NodeNew(Value(node))

NewtypeVariantNode(node) == node

NewtypeVariantSeed ==
    /\ OnTop("variant")
    /\ de' = Some(NewtypeVariantNode(Top.node))
    /\ stack' = Pop
    /\ ret' = [op |-> "newtype_variant_seed", node |-> Top.node]
    /\ UNCHANGED <<prefix, pairs, root, pc>>

\* VariantAccessor::tuple_variant
TupleVariant(len) ==
    /\ OnTop("variant")
    /\ Fail("tuple_variant", "tuple variant is not supported")
    /\ UNCHANGED <<prefix, pairs, root>>

\* VariantAccessor::struct_variant
StructVariant(fields) ==
    /\ OnTop("variant")
    /\ \E order \in Orders(fields) :
          stack' = SetTop(StructAccessor(fields, order, Top.node))
    /\ ret' = [op |-> "struct_variant", node |-> Top.node]
    /\ UNCHANGED <<prefix, pairs, root, pc, de>>

\* ------------------------------------------------------- specifications

Init ==
    /\ prefix \in Prefixes
    /\ pairs = <<>>
    /\ root = NodeNew(<<>>)
    /\ pc = "build"
    /\ de = None
    /\ stack = <<>>
    /\ ret = [op |-> "init"]

Next ==
    \/ \E k \in BuildKeys, v \in BuildValues : Push(k, v)
    \/ FromIter
    \/ DeserializeAny
    \/ DeserializeStr
    \/ DeserializeString
    \/ DeserializeOption
    \/ DeserializeNewtypeStruct
    \/ DeserializeSeq
    \/ \E len \in TupleLens : DeserializeTuple(len)
    \/ DeserializeMap
    \/ \E fields \in FieldLists : DeserializeStruct(fields)
    \/ \E variants \in VariantLists : DeserializeEnum(variants)
    \/ NextElement
    \/ NextKeyAssert
    \/ NextKey
    \/ NextValue
    \/ VisitorReturn
    \/ VariantSeed
    \/ UnitVariant
    \/ NewtypeVariantSeed
    \/ \E len \in TupleLens : TupleVariant(len)
    \/ \E fields \in FieldLists : StructVariant(fields)

Spec == Init /\ [][Next]_vars

\* decoding of a fresh single-value node, Deserializer(Node::new(v))
InitLeaf ==
    /\ prefix = None
    /\ pairs = <<>>
    /\ \E v \in LeafValues : root = NodeNew(v)
    /\ pc = "decode"
    /\ de = Some(root)
    /\ stack = <<>>
    /\ ret = [op |-> "init"]

NextLeaf ==
    \/ DeserializeAny
    \/ DeserializeStr
    \/ DeserializeOption
    \/ DeserializeSeq
    \/ \E len \in TupleLens : DeserializeTuple(len)
    \/ \E variants \in VariantLists : DeserializeEnum(variants)
    \/ NextElement
    \/ VisitorReturn
    \/ VariantSeed
    \/ UnitVariant
    \/ NewtypeVariantSeed
    \/ \E len \in TupleLens : TupleVariant(len)

SpecLeaf == InitLeaf /\ [][NextLeaf]_vars

\* decoding of a map with an unknown field set (a map of strings) from a tree
\* built by from_iter / from_iter_with_prefix; pairs keeps the pairs the tree
\* was built from
MapBuildKeys ==
    { <<"a">>, <<"A","_","B">>, <<"a","_","B","_","c">>, <<"_","a">>,
      <<"a","_","_","c">>, <<"P">>, <<"P","_","_","a">> }

MapPairs == [key : MapBuildKeys, value : BuildValues]

InitMap ==
    /\ prefix \in {None, Some(<<"P">>)}
    /\ pairs \in UNION { [1..n -> MapPairs] : n \in 0..MaxPairs }
    /\ root = FromPairs(prefix, pairs)
    /\ pc = "decode"
    /\ de = Some(root)
    /\ stack = <<>>
    /\ ret = [op |-> "from_iter"]

NextMap ==
    \/ DeserializeMap
    \/ DeserializeString
    \/ NextKeyAssert
    \/ NextKey
    \/ NextValue
    \/ VisitorReturn

SpecMap == InitMap /\ [][NextMap]_vars

\* decoding with typed hints (bool, the integer types, char) at the root, as
\* struct and map field values, as sequence and tuple elements and as variant
\* payloads
TypedValues ==
    { <<>>, <<"1">>, <<"t","r","u","e">>, <<"T","r","u","e">>, <<"X">>,
      <<"-","1","2","9",",","2","5","6",",","x">>,
      <<"1","2","7",","," ","-","1","2","8",",","+","2","5","5",",","-","0">>,
      <<"3","2","7","6","8",",","-","3","2","7","6","8",",","6","5","5","3","6">>,
      IntMax("u32") \o <<",","-">> \o IntMinMagnitude("i32") \o <<",">> \o
         IntMinMagnitude("i32") \o <<",">> \o IntMax("i64") \o <<"0">>,
      U64Max \o <<",","-">> \o I64MinMagnitude \o <<",">> \o I64MinMagnitude
         \o <<",","0","0">> \o U64Max \o <<",","-",",","+">> }

TypedInnerValues ==
    { <<"1">>, <<"X">>, <<"-","1","2","9",",","2","5","6",",","x">> }

\* a = v alone, or a = v and a_b = w
TypedPairs ==
    { << [key |-> <<"a">>, value |-> v] >> : v \in TypedValues }
    \cup { << [key |-> <<"a">>, value |-> v],
              [key |-> <<"a","_","b">>, value |-> w] >>
            : v \in TypedValues, w \in TypedInnerValues }

TypedFieldLists == { <<<<"a">>, <<"b">>>> }

InitTyped ==
    /\ prefix = None
    /\ pairs \in TypedPairs
    /\ root = FromPairs(prefix, pairs)
    /\ pc = "decode"
    /\ de \in {Some(root), Some(root.children[<<"a">>])}
    /\ stack = <<>>
    /\ ret = [op |-> "from_iter"]

NextTyped ==
    \/ DeserializeBool
    \/ \E t \in IntTypes : DeserializeInt(t)
    \/ DeserializeChar
    \/ DeserializeString
    \/ DeserializeSeq
    \/ \E len \in TupleLens : DeserializeTuple(len)
    \/ DeserializeMap
    \/ \E fields \in TypedFieldLists : DeserializeStruct(fields)
    \/ \E variants \in VariantLists : DeserializeEnum(variants)
    \/ NextElement
    \/ NextKey
    \/ NextValue
    \/ VisitorReturn
    \/ VariantSeed
    \/ UnitVariant
    \/ NewtypeVariantSeed
    \/ \E len \in TupleLens : TupleVariant(len)
    \/ \E fields \in TypedFieldLists : StructVariant(fields)

SpecTyped == InitTyped /\ [][NextTyped]_vars

\* ------------------------------------------------ vocabulary of the claims

Last(q) == q[Len(q)]

\* the paths (sequences of segment names) of the nodes of the subtree of n
RECURSIVE PathsOf(_)
PathsOf(n) ==
    {<<>>} \cup UNION { {<<s>> \o p : p \in PathsOf(n.children[s])}
                        : s \in DOMAIN n.children }

\* the node at path p of the subtree of n, p \in PathsOf(n)
RECURSIVE NodeAt(_, _)
NodeAt(n, p) == IF p = <<>> THEN n ELSE NodeAt(n.children[Head(p)], Tail(p))

\* a name lowercased and cut at its underscores
FieldPath(name) == Split(Lower(name), "_")

\* p is the path of a node of the subtree of n, i.e. p \in PathsOf(n)
RECURSIVE HasPath(_, _)
HasPath(n, p) ==
    \/ p = <<>>
    \/ Head(p) \in DOMAIN n.children /\ HasPath(n.children[Head(p)], Tail(p))

Present(node, name) == HasPath(node, FieldPath(name))

MapFrames == {i \in 1..Len(stack) : stack[i].kind = "map"}

\* the innermost accessor when it is a map accessor: the only frame a step can
\* change, the frames below it staying as they were when they were innermost
TopMap == {i \in MapFrames : i = Len(stack)}

\* the last keys yielded by the map accessors i..j, joined by underscores
RECURSIVE JoinedKey(_, _)
JoinedKey(i, j) ==
    IF i = j THEN Last(stack[i].yielded)
    ELSE Last(stack[i].yielded) \o <<"_">> \o JoinedKey(i + 1, j)

\* ---------------------------------------------------------------------- C1
\* C1: in the innermost map/struct accessor, the keys yielded are names whose path
\* (lowercased, split on '_') exists below the accessor's node; the buffered
\* value is exactly the node at the path of the last key yielded; no present
\* candidate is lost (present candidates = yielded + present ones still to
\* come), so that at end-of-map exactly the present candidates were yielded,
\* absent ones being skipped without an error; and along nested accessors the
\* value resolved level by level (a, then b, then c) is the node a single
\* accessor resolves for the joined name a_b_c.
C1_StructFieldsResolved ==
    /\ \A i \in TopMap :
          LET m == stack[i]
              present(K) == {k \in K : Present(m.node, k)}
          IN  /\ \A j \in 1..Len(m.yielded) : Present(m.node, m.yielded[j])
              /\ m.last_value # None =>
                    /\ m.yielded # <<>>
                    /\ m.last_value = Some(NodeAt(m.node, FieldPath(Last(m.yielded))))
              /\ present(Range(m.candidates)) =
                    Range(m.yielded) \cup present(Range(m.keys))
              /\ Len(m.yielded) = Cardinality(Range(m.yielded))
    /\ (pc = "decode" /\ ret.op = "next_key" /\ ret.val = None) =>
          {k \in Range(Top.candidates) : Present(Top.node, k)} = Range(Top.yielded)
    /\ ret.op = "next_key" => pc # "error"
    /\ \A i \in MapFrames : \A j \in TopMap :
          (i < j /\ \A k \in i..j : k \in MapFrames) =>
             /\ stack[j].node = NodeAt(stack[i].node, FieldPath(JoinedKey(i, j - 1)))
             /\ stack[j].last_value # None =>
                   /\ Present(stack[i].node, JoinedKey(i, j))
                   /\ stack[j].last_value =
                         Some(NodeAt(stack[i].node, FieldPath(JoinedKey(i, j))))
                   /\ stack[j].last_value = Get(stack[i].node, JoinedKey(i, j))

S_abc == <<"a","_","b","_","c">>

\* three nested struct accessors resolved a, then b, then c (an absent field z
\* skipped on the way), the value buffered being the node of a_b_c
C1_Witness ==
    /\ pc = "decode"
    /\ Len(stack) = 3
    /\ \A i \in 1..3 : stack[i].kind = "map"
    /\ stack[1].candidates = << <<"z">>, <<"a">> >>
    /\ stack[1].yielded = << <<"a">> >>
    /\ stack[2].yielded = << <<"b">> >>
    /\ stack[3].yielded = << <<"c">> >>
    /\ stack[3].last_value = Some(NodeNew(<<"Y">>))
    /\ Get(root, S_abc) = Some(NodeNew(<<"Y">>))

\* ---------------------------------------------------------------------- C2
LookupKeys == BuildKeys \cup UNION {Range(f) : f \in FieldLists}

WithKeys(ps, F(_)) == [i \in 1..Len(ps) |-> [ps[i] EXCEPT !.key = F(@)]]

\* C2: the tree built from the pairs is the tree built from the same pairs
\* with their keys in upper case, and in lower case; every segment name of
\* the tree is lowercase; and get resolves a key, its upper-case form and its
\* lower-case form to the same node, at the root of the tree built and for
\* every candidate key of the innermost map accessor.
C2_CaseInsensitive ==
    /\ pc = "build" =>
          /\ root = FromPairs(prefix, pairs)
          /\ root = FromPairs(prefix, WithKeys(pairs, Upper))
          /\ root = FromPairs(prefix, WithKeys(pairs, Lower))
          /\ \A p \in PathsOf(root) : \A i \in 1..Len(p) : \A j \in 1..Len(p[i]) :
                ~IsUpper(p[i][j])
          /\ \A k \in LookupKeys :
                /\ Get(root, k) = Get(root, Upper(k))
                /\ Get(root, k) = Get(root, Lower(k))
    /\ \A i \in TopMap : \A k \in Range(stack[i].candidates) :
          /\ Get(stack[i].node, k) = Get(stack[i].node, Upper(k))
          /\ Get(stack[i].node, k) = Get(stack[i].node, Lower(k))

\* the keys "A" then "a" were pushed: one node, named a, holding the second value
C2_Witness ==
    /\ pc = "build"
    /\ prefix = None
    /\ pairs = << [key |-> <<"A">>, value |-> <<>>],
                  [key |-> <<"a">>, value |-> <<"Y">>] >>
    /\ DOMAIN root.children = { <<"a">> }
    /\ Get(root, <<"A">>) = Some(NodeNew(<<"Y">>))

\* ---------------------------------------------------------------------- C3
\* the path a pair is stored at, None when the prefix filter discards it
EffectivePath(key) ==
    IF prefix = None THEN Some(FieldPath(key))
    ELSE LET k == Lower(key)
             q == Lower(prefix[1])
         IN  IF k = q THEN Some(<< <<>> >>)
             ELSE IF Len(k) > Len(q) /\ SubSeq(k, 1, Len(q) + 1) = q \o <<"_">>
                  THEN Some(Split(SubSeq(k, Len(q) + 2, Len(k)), "_"))
             ELSE None

SetMax(S) == CHOOSE x \in S : \A y \in S : y <= x

\* C3: while the tree is built, its nodes are exactly the root and the
\* prefixes of the paths of the pairs taken so far, and the value at each
\* path is the value of the last pair stored at that path (the empty string
\* when no pair was): a later pair overwrites an earlier one and nothing else.
C3_LastWriteWins ==
    pc = "build" =>
       LET T == {i \in 1..Len(pairs) : EffectivePath(pairs[i].key) # None}
           target(i) == EffectivePath(pairs[i].key)[1]
       IN  /\ PathsOf(root) =
                {<<>>} \cup UNION { {SubSeq(target(i), 1, n) : n \in 1..Len(target(i))}
                                    : i \in T }
           /\ \A p \in PathsOf(root) :
                 LET W == {i \in T : target(i) = p}
                 IN  Value(NodeAt(root, p)) =
                        IF W = {} THEN <<>> ELSE pairs[SetMax(W)].value

\* a_B_c, then a were pushed: the second pair set the value of the node a,
\* which the first had created empty, and the node a_b_c kept its own value
C3_Witness ==
    /\ pc = "build"
    /\ prefix = None
    /\ pairs = << [key |-> <<"a","_","B","_","c">>, value |-> <<"Y">>],
                  [key |-> <<"a">>, value |-> <<"Y">>] >>
    /\ root.children[<<"a">>].value = <<"Y">>
    /\ Get(root, S_abc) = Some(NodeNew(<<"Y">>))

\* ---------------------------------------------------------------------- C4
Contributes(key) ==
    LET k == Lower(key)
        q == Lower(prefix[1])
    IN  k = q \/ StartsWith(k, q \o <<"_">>)

StrippedKey(key) ==
    IF Lower(key) = Lower(prefix[1]) THEN <<>>
    ELSE SubSeq(Lower(key), Len(prefix[1]) + 2, Len(key))

\* C4: with a prefix set, the tree is the tree built, without any prefix,
\* from the pairs whose lowercased key equals the lowercased prefix or starts
\* with prefix + "_", each with the prefix and the underscore stripped from
\* its key; every other pair leaves no trace in the tree.
C4_PrefixFilter ==
    (pc = "build" /\ prefix # None) =>
       LET kept == SelectSeq(pairs, LAMBDA pr : Contributes(pr.key))
           stripped == [i \in 1..Len(kept) |->
                           [key |-> StrippedKey(kept[i].key), value |-> kept[i].value]]
       IN  root = FromPairs(None, stripped)

\* prefix P: P_a contributed as a; Pa (no underscore after the prefix) did not
C4_Witness ==
    /\ pc = "build"
    /\ prefix = Some(<<"P">>)
    /\ pairs = << [key |-> <<"P","_","a">>, value |-> <<"Y">>],
                  [key |-> <<"P","a">>, value |-> <<"Y">>] >>
    /\ root = [value |-> <<>>, children |-> (<<"a">> :> NodeNew(<<"Y">>))]

\* ---------------------------------------------------------------------- C5
CommaPositions(v) == {i \in 1..Len(v) : v[i] = ","}

NthComma(v, k) ==
    CHOOSE i \in CommaPositions(v) :
        Cardinality({j \in CommaPositions(v) : j < i}) = k - 1

\* s without the whitespace before its first and after its last other character
Trimmed(s) ==
    LET N == {i \in 1..Len(s) : ~IsWhitespace(s[i])}
    IN  IF N = {} THEN <<>>
        ELSE SubSeq(s, CHOOSE i \in N : \A j \in N : i <= j,
                       CHOOSE i \in N : \A j \in N : j <= i)

\* the pieces of v between its commas, each trimmed
CommaPieces(v) ==
    LET n == Cardinality(CommaPositions(v))
    IN  [k \in 1..(n + 1) |->
            Trimmed(SubSeq(v, IF k = 1 THEN 1 ELSE NthComma(v, k - 1) + 1,
                              IF k = n + 1 THEN Len(v) ELSE NthComma(v, k) - 1))]

C5_Split ==
    /\ ret.op = "deserialize_tuple" =>
          /\ ret.out.val = CommaPieces(Value(ret.node))
          /\ Top = [kind |-> "seq", elements |-> ret.out.val, taken |-> <<>>]
    /\ ret.op = "deserialize_seq" =>
          /\ ret.out.val = SelectSeq(CommaPieces(Value(ret.node)), LAMBDA e : e # <<>>)
          /\ Top = [kind |-> "seq", elements |-> ret.out.val, taken |-> <<>>]

C5_Element ==
    (OnTop("seq") /\ ret'.op = "next_element") =>
        IF Top.elements = <<>>
        THEN ret'.val = None /\ de' = None /\ stack' = stack
        ELSE /\ ret'.val = Some(Head(Top.elements))
             /\ de' = Some([value |-> Head(Top.elements), children |-> NoChildren])
             /\ stack' = [stack EXCEPT ![Len(stack)] =
                             [kind |-> "seq", elements |-> Tail(Top.elements),
                              taken |-> Append(Top.taken, Head(Top.elements))]]

\* C5: deserialize_tuple hands its accessor the comma-separated pieces of the
\* value, each trimmed, in order, empty ones kept; deserialize_seq hands the
\* same list without its empty pieces; next_element hands out the first
\* remaining element, once, as a fresh node with that value and no children,
\* and None when no element remains.
C5_SequenceSplitting == []C5_Split /\ [][C5_Element]_vars

\* the tuple of "1,2," decoded to its end: three elements, the last one empty
C5_Witness ==
    /\ root = NodeNew(<<"1",",","2",",">>)
    /\ Len(stack) = 1
    /\ Top.kind = "seq"
    /\ Top.taken = << <<"1">>, <<"2">>, <<>> >>
    /\ Top.elements = <<>>
    /\ de = Some(NodeNew(<<>>))

\* ---------------------------------------------------------------------- C6
\* C6: deserialize_option visits none exactly when the node has an empty
\* value and no children, and then hands no deserializer on; otherwise it
\* visits some and hands on a deserializer of the very same node.
C6_Option ==
    ret.op = "deserialize_option" =>
       /\ ret.out.visit \in {"none", "some"}
       /\ ret.out.visit = "none" <=>
             (ret.node.value = <<>> /\ PathsOf(ret.node) = {<<>>})
       /\ ret.out.visit = "none" => de = None
       /\ ret.out.visit = "some" => de = Some(ret.node)

\* a node with an empty value and a child is present
C6_Witness ==
    /\ ret.op = "deserialize_option"
    /\ ret.node.value = <<>>
    /\ DOMAIN ret.node.children # {}
    /\ ret.out.visit = "some"
    /\ de = Some(ret.node)

\* ---------------------------------------------------------------------- C7
RECURSIVE LexLeq(_, _)
LexLeq(a, b) ==
    \/ a = <<>>
    \/ ValueOf[Head(a)] < ValueOf[Head(b)]
    \/ Head(a) = Head(b) /\ LexLeq(Tail(a), Tail(b))

Zeros(n) == [i \in 1..n |-> "0"]

\* the number written by the digits d is at most the number written by max
AtMost(d, max) ==
    \E z \in 0..Len(d) :
       /\ SubSeq(d, 1, z) = Zeros(z)
       /\ Len(d) - z <= Len(max)
       /\ LexLeq(Zeros(Len(max) - (Len(d) - z)) \o SubSeq(d, z + 1, Len(d)), max)

\* the digits d without their leading zeros (one zero kept for zero)
Canonical(d) ==
    LET Z == {z \in 0..(Len(d) - 1) : SubSeq(d, 1, z) = Zeros(z)}
    IN  SubSeq(d, (CHOOSE z \in Z : \A y \in Z : y <= z) + 1, Len(d))

\* the classification of a value, rule by rule
Classify(v) ==
    IF v = <<>> THEN "none"
    ELSE IF \E i \in 1..Len(v) : v[i] = "," THEN "seq"
    ELSE IF \A i \in 1..Len(v) : v[i] \in DOMAIN ValueOf
         THEN IF AtMost(v, U64Max) THEN "u64" ELSE "str"
    ELSE IF v[1] = "-" /\ \A i \in 2..Len(v) : v[i] \in DOMAIN ValueOf
         THEN IF Len(v) > 1 /\ AtMost(Tail(v), I64MinMagnitude) THEN "i64" ELSE "str"
    ELSE IF Lower(v) \in {S_true, S_false} THEN "bool"
    ELSE "str"

\* C7: deserialize_any visits according to the first rule that applies:
\* empty -> none; a comma -> sequence; only digits -> u64 when at most
\* 18446744073709551615, else the string; '-' then only digits -> i64 when at
\* least -9223372036854775808, else the string (the lone "-" too); true/false
\* in any case -> bool; else the string.  The number visited is the one the
\* digits write, the string visited is the value itself.
C7_Infer ==
    ret.op = "deserialize_any" =>
       LET v == Value(ret.node)
           o == ret.out
       IN  /\ o.visit = Classify(v)
           /\ o.visit = "u64" => o.val = [neg |-> FALSE, digits |-> Canonical(v)]
           /\ o.visit = "i64" =>
                 o.val = [neg |-> Canonical(Tail(v)) # <<"0">>,
                          digits |-> Canonical(Tail(v))]
           /\ o.visit = "bool" => o.val = (Lower(v) = S_true)
           /\ o.visit = "str" => o.val = v
           /\ o.visit = "seq" => Top.kind = "seq" /\ Top.elements = o.val
           /\ o.visit # "seq" => de = None

\* 18446744073709551616 is all digits and does not fit: visited as a string
C7_Witness ==
    /\ ret.op = "deserialize_any"
    /\ Value(ret.node) =
          <<"1","8","4","4","6","7","4","4","0","7","3","7","0","9","5","5","1","6","1","6">>
    /\ ret.out.visit = "str"
    /\ ret.out.val = Value(ret.node)

\* ---------------------------------------------------------------------- C8
C8_Variant ==
    (OnTop("enum") /\ ret'.op = "variant_seed") =>
        LET v == Value(Top.node)
        IN  IF \E i \in 1..Len(Top.keys) : Top.keys[i] = v
            THEN /\ pc' = "decode"
                 /\ "val" \in DOMAIN ret' /\ ret'.val = v
                 /\ stack' = [stack EXCEPT ![Len(stack)] =
                                 [kind |-> "variant", node |-> Top.node]]
            ELSE /\ pc' = "error"
                 /\ "err" \in DOMAIN ret' /\ ret'.err = <<"no variant ", v, " found">>
                 /\ stack' = <<>>
                 /\ de' = None

\* C8: variant_seed selects the candidate equal to the node's value, character
\* for character; when no candidate is, it returns the error "no variant
\* <value> found" and no variant accessor exists.
C8_VariantSelection == [][C8_Variant]_vars

\* the value x against the candidates X, Y, Z: no variant, an error
C8_Witness ==
    /\ pc = "error"
    /\ ret.op = "variant_seed"
    /\ ret.err = <<"no variant ", <<"x">>, " found">>
    /\ stack = <<>>

\* ---------------------------------------------------------------------- C9
C9_Unit ==
    (OnTop("variant") /\ ret'.op = "unit_variant") =>
        IF DOMAIN Top.node.children = {}
        THEN pc' = "decode" /\ "err" \notin DOMAIN ret'
        ELSE pc' = "error" /\ ret'.err = "variant is not unit"

C9_Tuple ==
    (OnTop("variant") /\ ret'.op = "tuple_variant") =>
        pc' = "error" /\ "err" \in DOMAIN ret'

\* C9: unit_variant returns Ok exactly when the node has no children, and the
\* error "variant is not unit" otherwise; tuple_variant returns an error for
\* every node and every length.
C9_PayloadShape == [][C9_Unit]_vars /\ [][C9_Tuple]_vars

\* a matched variant whose node has a child, asked for a unit payload
C9_Witness ==
    /\ pc = "error"
    /\ ret.op = "unit_variant"
    /\ ret.err = "variant is not unit"

\* --------------------------------------------------------------------- C10
C10_Named ==
    Top.kind = "variant" => ret.op = "variant_seed" /\ Value(Top.node) = ret.val

C10_Newtype ==
    (OnTop("variant") /\ ret'.op = "newtype_variant_seed") =>
        /\ de' = Some(Top.node)
        /\ Value(de'[1]) = ret.val
        /\ pc' = "decode"

C10_Struct ==
    (OnTop("variant") /\ ret'.op = "struct_variant") =>
        /\ Len(stack') = Len(stack)
        /\ stack'[Len(stack')].kind = "map"
        /\ stack'[Len(stack')].node = Top.node
        /\ stack'[Len(stack')].last_value = None
        /\ \E f \in FieldLists : Range(stack'[Len(stack')].keys) = Range(f)
        /\ pc' = "decode"

\* C10: the variant accessor holds the node whose value is the variant name
\* selected; newtype_variant_seed hands the seed a deserializer of that same
\* node, value and children; struct_variant starts a map accessor over the
\* payload's field names on that same node, so the fields are looked up among
\* the node's own children.
C10_PayloadNode ==
    [](stack # <<>> => C10_Named) /\ [][C10_Newtype]_vars /\ [][C10_Struct]_vars

\* A=Y with A_B=Y, field a decoded as an enum: the variant Y matched, and its
\* struct payload {b} is looked up on the node of a, where b is a child
C10_Witness ==
    /\ ret.op = "struct_variant"
    /\ Len(stack) = 2
    /\ stack[1].kind = "map" /\ stack[1].node = root
    /\ stack[1].yielded = << <<"a">> >>
    /\ Top.kind = "map"
    /\ Top.node = [value |-> <<"Y">>, children |-> (<<"b">> :> NodeNew(<<"Y">>))]
    /\ Top.keys = << <<"b">> >>
    /\ Get(Top.node, <<"b">>) = Some(NodeNew(<<"Y">>))


\* --------------------------------------------------------------------- C11
\* the paths of the nodes below n that have no children
LeafPaths(n) ==
    {p \in PathsOf(n) : p # <<>> /\ DOMAIN NodeAt(n, p).children = {}}

\* the value of the last pair stored at path p, None when no pair was
Inserted(p) ==
    LET W == {i \in 1..Len(pairs) : EffectivePath(pairs[i].key) = Some(p)}
    IN  IF W = {} THEN None ELSE Some(pairs[SetMax(W)].value)

DecimalOf(t, v) ==
    LET signed == v # <<>> /\ v[1] \in {"+", "-"}
        minus == signed /\ v[1] = "-"
        d == IF signed THEN Tail(v) ELSE v
    IN  /\ d # <<>>
        /\ \A i \in 1..Len(d) : d[i] \in DOMAIN ValueOf
        /\ minus => IsSigned(t)
        /\ AtMost(d, IF minus THEN IntMinMagnitude(t) ELSE IntMax(t))

TypedOps ==
    {"deserialize_bool", "deserialize_char"} \cup {"deserialize_" \o t : t \in IntTypes}

\* the typed hint op accepts the string v
Accepts(op, v) ==
    IF op = "deserialize_bool" THEN v \in {S_true, S_false}
    ELSE IF op = "deserialize_char" THEN Len(v) = 1
    ELSE DecimalOf(CHOOSE t \in IntTypes : op = "deserialize_" \o t, v)

\* a typed hint applied to a string outside its grammar or range is an error
\* that ends every enclosing decode at once, no value being produced
C12_Step ==
    (pc = "decode" /\ de # None /\ ret'.op \in TypedOps) =>
       IF Accepts(ret'.op, Value(de[1]))
       THEN /\ pc' = "decode"
            /\ stack' = stack
            /\ "out" \in DOMAIN ret'
            /\ ret'.node = de[1]
       ELSE /\ pc' = "error"
            /\ stack' = <<>>
            /\ de' = None
            /\ DOMAIN ret' = {"op", "err"}

\* after an error no decode context is left and there is an error, no value
C12_Final ==
    pc = "error" => (stack = <<>> /\ de = None /\ DOMAIN ret = {"op", "err"})

\* C12: decoding is all-or-nothing: when the decoding of a field value, of a
\* sequence or tuple element or of a variant payload fails (an integer hint on
\* a string that is no decimal number of that width, a bool hint on a string
\* other than true and false, ...), every enclosing decode ends with that
\* error and without a value, and nothing runs afterwards: no retry, no
\* default in place of the failing field.
C12_AllOrNothing ==
    /\ []C12_Final
    /\ [][C12_Step]_vars
    /\ [][pc # "error"]_vars

\* a = 1 and a_b = -129,256,x: the element 256 of the field b, asked as a u8,
\* failed, and the sequence, the struct around it and the call ended with it
C12_Witness ==
    /\ pc = "error"
    /\ pairs = << [key |-> <<"a">>, value |-> <<"1">>],
                  [key |-> <<"a","_","b">>,
                   value |-> <<"-","1","2","9",",","2","5","6",",","x">>] >>
    /\ ret = [op |-> "deserialize_u8", err |-> "number too large to fit in target type"]
    /\ stack = <<>>
    /\ de = None


\* --------------------------------------------------------------------- C13
\* the innermost accessor when it is the map accessor of a struct
StructFrames == {i \in TopMap : "fields" \in DOMAIN stack[i]}

\* the names of q that are present below node, in the order of q
PresentOf(q, node) == SelectSeq(q, LAMBDA f : Present(node, f))

EndOfMap == pc = "decode" /\ ret.op = "next_key" /\ ret.val = None

\* the claim as stated: the keys yielded by a struct decode are the fields
\* of the list that are present in the tree, in the order of the list
C13_ListOrder ==
    \A i \in StructFrames :
       LET m == stack[i]
           s == PresentOf(m.fields, m.node)
       IN  /\ Len(m.yielded) <= Len(s)
           /\ m.yielded = SubSeq(s, 1, Len(m.yielded))
           /\ EndOfMap => m.yielded = s

\* C13 (amended): a struct decode iterates the set of the names of the field
\* list in an order of its own, which need not be the list's; the keys
\* yielded by successive next-key requests are the names present in the tree,
\* in that order of iteration, each yielded once, and at end-of-map every
\* name of the list that is present has been yielded.
C13_FieldsOnce ==
    \A i \in StructFrames :
       LET m == stack[i]
           s == PresentOf(m.candidates, m.node)
       IN  /\ Range(m.candidates) = Range(m.fields)
           /\ Len(m.candidates) = Cardinality(Range(m.fields))
           /\ Len(m.yielded) <= Len(s)
           /\ m.yielded = SubSeq(s, 1, Len(m.yielded))
           /\ \A j, k \in 1..Len(m.yielded) : m.yielded[j] = m.yielded[k] => j = k
           /\ EndOfMap =>
                 Range(m.yielded) = {f \in Range(m.fields) : Present(m.node, f)}

\* the fields a_b_c and A_b, both present, were yielded A_b first, each once,
\* their values read, and the map ended
C13_Witness ==
    /\ StructFrames # {}
    /\ Top.fields = << S_abc, <<"A","_","b">> >>
    /\ Top.yielded = << <<"A","_","b">>, S_abc >>
    /\ Top.last_value = None
    /\ EndOfMap


\* --------------------------------------------------------------------- C14
\* the accessor on top of the stack after the step
TopAfter == stack'[Len(stack')]

\* a value request: a panic when nothing is buffered, never an error; else the
\* seed gets the buffered node, which is the node resolved for the key
\* yielded last, and the buffer is emptied
C14_ValueStep ==
    (OnTop("map") /\ ret'.op = "next_value") =>
       IF Top.last_value = None
       THEN pc' = "panic" /\ stack' = stack /\ de' = None
       ELSE /\ pc' = "decode"
            /\ Top.yielded # <<>>
            /\ de' = Top.last_value
            /\ de' = Get(Top.node, Last(Top.yielded))
            /\ TopAfter = [Top EXCEPT !.last_value = None]

\* no other call touches the buffer of an accessor that stays on the stack
C14_OtherStep ==
    (pc' = "decode" /\ ret'.op \notin {"next_key", "next_value"}) =>
       \A i \in 1..Len(stack) :
          (i <= Len(stack') /\ stack[i].kind = "map" /\ stack'[i].kind = "map") =>
             stack'[i].last_value = stack[i].last_value

\* a key request with nothing buffered: a key and its node buffered, or
\* end-of-map with the candidates exhausted and nothing buffered
C14_KeyStepClean ==
    (OnTop("map") /\ ret'.op = "next_key" /\ Top.last_value = None) =>
       /\ pc' = "decode"
       /\ ret'.val # None =>
             /\ TopAfter.last_value = Get(Top.node, ret'.val[1])
             /\ TopAfter.last_value # None
             /\ Last(TopAfter.yielded) = ret'.val[1]
       /\ ret'.val = None => (TopAfter.last_value = None /\ TopAfter.keys = <<>>)

C14_KeyStepBuffered ==
    (OnTop("map") /\ ret'.op = "next_key" /\ Top.last_value # None) =>
       \/ pc' = "panic" /\ stack' = stack
       \/ /\ pc' = "decode"
          /\ ret'.val # None =>
                /\ TopAfter.last_value = Get(Top.node, ret'.val[1])
                /\ Last(TopAfter.yielded) = ret'.val[1]
          /\ ret'.val = None =>
                (TopAfter.last_value = Top.last_value /\ TopAfter.keys = <<>>)

====
